---- MODULE Spec2Model ----
(***************************************************************************)
(* A model of bitwarden_organizer/core.py: the rule-based organisation of  *)
(* a Bitwarden export (organize_bitwarden_export driving organize_item).   *)
(*                                                                         *)
(* Python strings are TLA+ strings (Len, SubSeq and \o work on them).      *)
(* Python values of varying type are tagged records [t |-> tag, v |-> x];  *)
(* a key that a dict does not hold has the value Missing.                  *)
(***************************************************************************)
EXTENDS Naturals, Sequences, FiniteSets, TLC

\* ------------------------------------------------------------------------
\* Python values
\* ------------------------------------------------------------------------

Missing == [t |-> "missing"]
PyNone == [t |-> "None"]
Str(s) == [t |-> "str", v |-> s]
List(l) == [t |-> "list", v |-> l]
Dict(d) == [t |-> "dict", v |-> d]

IsStr(x) == x.t = "str"
IsList(x) == x.t = "list"
IsDict(x) == x.t = "dict"
Has(x) == x.t # "missing"

\* bool(x) for the values the model holds
Truthy(x) ==
  CASE x.t = "missing" -> FALSE
    [] x.t = "None" -> FALSE
    [] x.t = "str" -> x.v # ""
    [] x.t = "list" -> Len(x.v) > 0
    [] OTHER -> TRUE

\* ------------------------------------------------------------------------
\* str methods
\* ------------------------------------------------------------------------

\* The characters the model's strings are made of, in code-point order.
Alphabet == "\t\n\f\r !\"#$%&'()*+,-./0123456789:;<=>?@ABCDEFGHIJKLMNOPQRSTUVWXYZ[\\]^_abcdefghijklmnopqrstuvwxyz{|}~"
\* the characters str.strip() removes
Whitespace == {" ", "\t", "\n", "\r", "\f"}

CharAt(s, i) == SubSeq(s, i, i)

MinOf(S) == IF S = {} THEN 0 ELSE CHOOSE k \in S : \A j \in S : k <= j

\* the positions of s at which sub starts
Occurrences(s, sub) ==
  {k \in 1..(Len(s) + 1 - Len(sub)) : SubSeq(s, k, k + Len(sub) - 1) = sub}

\* s.find(sub), 1-based, 0 when sub does not occur
Find(s, sub) == MinOf(Occurrences(s, sub))
Contains(s, sub) == \E k \in 1..(Len(s) + 1 - Len(sub)) : SubSeq(s, k, k + Len(sub) - 1) = sub
StartsWith(s, p) == Len(p) <= Len(s) /\ SubSeq(s, 1, Len(p)) = p

RECURSIVE PosFrom(_, _, _)
PosFrom(s, c, k) ==
  IF k > Len(s) THEN 0 ELSE IF CharAt(s, k) = c THEN k ELSE PosFrom(s, c, k + 1)

\* ord(c) up to order, 0 for a character outside Alphabet
Ord(c) == PosFrom(Alphabet, c, 1)

UpperLetters ==
  {"A", "B", "C", "D", "E", "F", "G", "H", "I", "J", "K", "L", "M",
   "N", "O", "P", "Q", "R", "S", "T", "U", "V", "W", "X", "Y", "Z"}
LowerLetters ==
  {"a", "b", "c", "d", "e", "f", "g", "h", "i", "j", "k", "l", "m",
   "n", "o", "p", "q", "r", "s", "t", "u", "v", "w", "x", "y", "z"}
Digits == {"0", "1", "2", "3", "4", "5", "6", "7", "8", "9"}
LowerOf ==
  [A |-> "a", B |-> "b", C |-> "c", D |-> "d", E |-> "e", F |-> "f", G |-> "g", H |-> "h", I |-> "i",
   J |-> "j", K |-> "k", L |-> "l", M |-> "m", N |-> "n", O |-> "o", P |-> "p", Q |-> "q", R |-> "r",
   S |-> "s", T |-> "t", U |-> "u", V |-> "v", W |-> "w", X |-> "x", Y |-> "y", Z |-> "z"]
UpperOf ==
  [a |-> "A", b |-> "B", c |-> "C", d |-> "D", e |-> "E", f |-> "F", g |-> "G", h |-> "H", i |-> "I",
   j |-> "J", k |-> "K", l |-> "L", m |-> "M", n |-> "N", o |-> "O", p |-> "P", q |-> "Q", r |-> "R",
   s |-> "S", t |-> "T", u |-> "U", v |-> "V", w |-> "W", x |-> "X", y |-> "Y", z |-> "Z"]

AllIn(s, chars) == \A k \in 1..Len(s) : CharAt(s, k) \in chars
NoneIn(s, chars) == \A k \in 1..Len(s) : CharAt(s, k) \notin chars

LowerChar(c) == IF c \in UpperLetters THEN LowerOf[c] ELSE c
UpperChar(c) == IF c \in LowerLetters THEN UpperOf[c] ELSE c

\* str.lower(): a string without upper-case letters is its own lower case
RECURSIVE LowerFrom(_)
LowerFrom(s) == IF s = "" THEN "" ELSE LowerChar(CharAt(s, 1)) \o LowerFrom(Tail(s))
Lower(s) == IF NoneIn(s, UpperLetters) THEN s ELSE LowerFrom(s)

\* A faulty capitalize that leaves the rest of the string as it is.
Capitalize_first_only(s) ==
  IF s = "" THEN "" ELSE UpperChar(CharAt(s, 1)) \o Tail(s)

\* str.capitalize(): first character upper-cased, the rest lower-cased
Capitalize(s) == IF s = "" THEN "" ELSE UpperChar(CharAt(s, 1)) \o Lower(Tail(s))

IsSpace(c) == c \in Whitespace

RECURSIVE LStrip(_)
LStrip(s) == IF s # "" /\ IsSpace(CharAt(s, 1)) THEN LStrip(Tail(s)) ELSE s
RECURSIVE RStrip(_)
RStrip(s) ==
  IF s # "" /\ IsSpace(CharAt(s, Len(s))) THEN RStrip(SubSeq(s, 1, Len(s) - 1)) ELSE s
Strip(s) == RStrip(LStrip(s))

RECURSIVE Split(_, _)
SplitAt(s, sep, k) ==
  IF k = 0 THEN <<s>>
  ELSE <<SubSeq(s, 1, k - 1)>> \o Split(SubSeq(s, k + Len(sep), Len(s)), sep)
\* s.split(sep) for a non-empty separator
Split(s, sep) == SplitAt(s, sep, Find(s, sep))

RECURSIVE Join(_, _)
\* sep.join(parts)
Join(parts, sep) ==
  IF Len(parts) = 0 THEN ""
  ELSE IF Len(parts) = 1 THEN parts[1]
  ELSE parts[1] \o sep \o Join(Tail(parts), sep)

RECURSIVE StrLess(_, _)
\* a < b on str (code-point order)
StrLess(a, b) ==
  IF b = "" THEN FALSE
  ELSE IF a = "" THEN TRUE
  ELSE IF CharAt(a, 1) = CharAt(b, 1) THEN StrLess(Tail(a), Tail(b))
  ELSE Ord(CharAt(a, 1)) < Ord(CharAt(b, 1))

RECURSIVE RemoveFrom(_, _)
RemoveFrom(s, chars) ==
  IF s = "" THEN ""
  ELSE (IF CharAt(s, 1) \in chars THEN "" ELSE CharAt(s, 1)) \o RemoveFrom(Tail(s), chars)
\* s with every character of the set chars removed
Remove(s, chars) == IF NoneIn(s, chars) THEN s ELSE RemoveFrom(s, chars)

\* sorted(set of str) as a sequence
RECURSIVE Sorted(_)
LeastFirst(S, m) == <<m>> \o Sorted(S \ {m})
Sorted(S) ==
  IF S = {} THEN <<>>
  ELSE LeastFirst(S, CHOOSE a \in S : \A b \in S \ {a} : StrLess(a, b))

\* ------------------------------------------------------------------------
\* Tables of core.py
\* ------------------------------------------------------------------------

\* Each pattern of CATEGORY_RULES is an alternation of literals: it is held
\* as the sequence of its alternatives, "\." unescaped to ".".
CATEGORY_RULES == <<
  [alts |-> <<"paypal", "stripe", "wise", "revolut", "americanexpress", "chase",
              "barclays", "hsbc", "capitalone", "bofa", "coinbase", "kraken",
              "binance", "ftx", "monzo">>,
   category |-> "Finance", tags |-> {"finance"}],
  [alts |-> <<"facebook", "instagram", "twitter", "x.com", "tiktok", "snapchat",
              "reddit", "discord", "slack">>,
   category |-> "Social", tags |-> {"social"}],
  [alts |-> <<"github", "gitlab", "bitbucket", "docker", "heroku", "vercel",
              "netlify", "sentry", "linear", "atlassian">>,
   category |-> "Developer", tags |-> {"dev"}],
  [alts |-> <<"aws.amazon", "azure", "microsoftonline", "gcp", "cloud.google",
              "cloudflare", "digitalocean", "linode", "vultr">>,
   category |-> "Cloud", tags |-> {"cloud"}],
  [alts |-> <<"gmail", "protonmail", "fastmail", "outlook", "live.com", "yahoo">>,
   category |-> "Email", tags |-> {"email"}],
  [alts |-> <<"amazon", "ebay", "aliexpress", "walmart", "target", "bestbuy",
              "newegg", "etsy">>,
   category |-> "Shopping", tags |-> {"shopping"}],
  [alts |-> <<"gov.", ".gov", "hmrc", "irs", "uscis", "ssa.gov", "dvla", "uscourts">>,
   category |-> "Government/Utilities", tags |-> {"gov"}],
  [alts |-> <<"airbnb", "booking", "expedia", "uber", "lyft", "delta", "united",
              "aa.com", "ryanair", "easyjet">>,
   category |-> "Travel", tags |-> {"travel"}],
  [alts |-> <<"yubico", "duo", "authy", "1password", "lastpass", "bitwarden.com">>,
   category |-> "Security", tags |-> {"security"}] >>

THREE_LABEL_TLDS ==
  {"co.uk", "gov.uk", "ac.uk", "com.au", "com.br", "com.mx", "com.tr",
   "co.jp", "co.nz", "co.za"}

\* GENERIC_NAME_PATTERNS, matched against an already stripped name:
\* ^\s*(login|website|account)\s*$ with re.I, and ^\s*$
GENERIC_NAMES == {"login", "website", "account"}
\* A faulty match that tells upper case from lower case.
MatchesGeneric_case_sensitive(name) ==
  \/ Strip(name) \in GENERIC_NAMES
  \/ Strip(name) = ""
MatchesGeneric(name) ==
  \/ Lower(Strip(name)) \in GENERIC_NAMES
  \/ Strip(name) = ""

\* ------------------------------------------------------------------------
\* Results of calls that may raise
\* ------------------------------------------------------------------------

Raise == [ok |-> FALSE]
Return(v) == [ok |-> TRUE, v |-> v]

\* ------------------------------------------------------------------------
\* Helpers of core.py
\* ------------------------------------------------------------------------

\* gen_id(): uuid4 is modelled as the next identifier never handed out before
gen_id(n) == "uuid-" \o ToString(n)

\* datetime.now().isoformat() at clock reading n
isoformat(n) == "2024-01-01T00:00:" \o (IF n < 10 THEN "0" ELSE "") \o ToString(n)

is_org_export(data) == IsDict(data) /\ Has(data.v.collections)

\* the least index >= from of a "/", "?" or "#" in url, or Len(url) + 1
RECURSIVE NetlocEnd(_, _)
NetlocEnd(url, from) ==
  IF from > Len(url) THEN from
  ELSE IF CharAt(url, from) \in {"/", "?", "#"} THEN from
  ELSE NetlocEnd(url, from + 1)

\* scheme_chars of urllib.parse
SchemeChars == LowerLetters \cup UpperLetters \cup Digits \cup {"+", "-", "."}
Letters == LowerLetters \cup UpperLetters


\* urlsplit: url without its scheme, i being url.find(":")
strip_scheme(url, i) ==
  IF i > 1 /\ CharAt(url, 1) \in Letters /\ AllIn(SubSeq(url, 1, i - 1), SchemeChars)
  THEN SubSeq(url, i + 1, Len(url))
  ELSE url

\* urlsplit: the brackets of a netloc must pair up (ValueError otherwise)
check_netloc(netloc) ==
  IF Contains(netloc, "[") # Contains(netloc, "]") THEN Raise ELSE Return(netloc)

\* urlsplit: the netloc of a url whose scheme is gone
split_netloc(url) ==
  IF StartsWith(url, "//")
  THEN check_netloc(SubSeq(url, 3, NetlocEnd(url, 3) - 1))
  ELSE Return("")

\* urlsplit: leading spaces stripped, tab, CR and LF removed
clean_url(url) == Remove(LStrip(url), {"\t", "\r", "\n"})

with_scheme_found(url) == split_netloc(strip_scheme(url, Find(url, ":")))

\* urlparse(uri).netloc (urllib.parse.urlsplit): Raise stands for ValueError.
\* Hosts in balanced brackets are outside the model's URIs.
urlparse_netloc(uri) == with_scheme_found(clean_url(uri))

LastN(seq, n) == SubSeq(seq, Len(seq) - n + 1, Len(seq))

\* A faulty registrable_of that knows no three-label suffix.
registrable_of_two_labels(domain, parts) ==
  IF Len(parts) < 2 THEN domain ELSE Join(LastN(parts, 2), ".")

\* lines 136-144 of get_registrable_domain, parts being domain.split(".")
registrable_of(domain, parts) ==
  IF Len(parts) < 2 THEN domain
  ELSE IF Len(parts) >= 3 /\ Join(LastN(parts, 2), ".") \in THREE_LABEL_TLDS
       THEN Join(LastN(parts, 3), ".")
       ELSE Join(LastN(parts, 2), ".")

get_registrable_domain(domain) ==
  IF domain = "" THEN "" ELSE registrable_of(domain, Split(domain, "."))

InSeq(e, seq) == \E k \in 1..Len(seq) : seq[k] = e

\* lines 121-125: domains with the registrable domain of domain appended
add_registrable(domain, registrable, domains) ==
  IF domain # "" /\ ~InSeq(domain, domains)
     /\ registrable # "" /\ ~InSeq(registrable, domains)
  THEN Append(domains, registrable)
  ELSE domains

add_domain(domain, domains) ==
  add_registrable(domain, get_registrable_domain(domain), domains)

\* lines 119-120
strip_www(domain) ==
  IF StartsWith(domain, "www.") THEN SubSeq(domain, 5, Len(domain)) ELSE domain

\* lines 116-125: domains after a host
add_host(host, domains) ==
  IF host = "" THEN domains
  ELSE add_domain(strip_www(Strip(Lower(host))), domains)

\* lines 109-112: the host of a parsed uri, "" for host = None
host_of_parsed(parsed) == IF parsed.ok THEN parsed.v ELSE ""

\* lines 106-114
host_of(uri) ==
  IF Contains(uri, "://") THEN host_of_parsed(urlparse_netloc(uri)) ELSE uri

\* A faulty loop body that fails on an entry without a uri or without a host.
parse_uri_failing_on_malformed(u, domains) ==
  IF ~Truthy(u) \/ ~IsDict(u) THEN Raise
  ELSE IF ~Truthy(u.v.uri) THEN Raise
  ELSE IF host_of(u.v.uri.v) = "" THEN Raise
  ELSE Return(add_host(host_of(u.v.uri.v), domains))

\* the body of the loop over login.uris, lines 103-125: the domains after u
parse_uri(u, domains) ==
  IF Truthy(u) /\ ~IsDict(u) THEN Raise   \* (u or {}).get on a str
  ELSE IF ~Truthy(u) THEN Return(domains)
  ELSE IF ~Truthy(u.v.uri) THEN Return(domains)
  ELSE Return(add_host(host_of(u.v.uri.v), domains))

RECURSIVE parse_uris(_, _)
after_uri(r, rest) == IF r.ok THEN parse_uris(rest, r.v) ELSE Raise
parse_uris(uris, domains) ==
  IF Len(uris) = 0 THEN Return(domains)
  ELSE after_uri(parse_uri(Head(uris), domains), Tail(uris))

\* line 102: login.get("uris") or []
uris_of(login) == IF Truthy(login) THEN login.v.uris ELSE Missing

\* parse_domains(item): Return(list of domains), or Raise
parse_domains(item) ==
  IF Truthy(item.login) /\ ~IsDict(item.login) THEN Raise
  ELSE IF ~Truthy(uris_of(item.login)) THEN Return(<<>>)
  ELSE IF ~IsList(uris_of(item.login)) THEN Raise
  ELSE parse_uris(uris_of(item.login).v, <<>>)

\* domain_score(domain) of suggest_item_name, and the order of its tuples
\* A faulty domain_score that puts the domains without a subdomain first.
domain_score_plain_first(domain) ==
  [no_sub |-> Len(Split(domain, ".")) > 2, len |-> Len(domain), domain |-> domain]

domain_score(domain) ==
  [no_sub |-> ~(Len(Split(domain, ".")) > 2), len |-> Len(domain), domain |-> domain]
ScoreLess(a, b) ==
  \/ (~a.no_sub /\ b.no_sub)
  \/ (a.no_sub = b.no_sub /\ a.len < b.len)
  \/ (a.no_sub = b.no_sub /\ a.len = b.len /\ StrLess(a.domain, b.domain))

\* min(domains, key=domain_score): the first element no other is below
MinByScore(domains) ==
  domains[CHOOSE k \in 1..Len(domains) :
            /\ \A j \in 1..Len(domains) :
                 ~ScoreLess(domain_score(domains[j]), domain_score(domains[k]))
            /\ \A j \in 1..(k - 1) :
                 ScoreLess(domain_score(domains[k]), domain_score(domains[j]))]

\* A faulty name_from that capitalizes the chosen domain as it is.
name_from_best_domain(best_domain, registrable) == Capitalize(best_domain)

\* lines 166-169
name_from(best_domain, registrable) ==
  IF registrable # "" /\ registrable # best_domain
  THEN Capitalize(registrable)
  ELSE Capitalize(best_domain)

name_from_domain(best_domain) ==
  name_from(best_domain, get_registrable_domain(best_domain))

\* lines 151-174, current_name being the stripped name
suggest_for(current_name, domains) ==
  IF current_name # "" /\ ~MatchesGeneric(current_name) THEN current_name
  ELSE IF Len(domains) > 0 THEN name_from_domain(MinByScore(domains))
  ELSE "Website"

\* suggest_item_name(item, domains): Return(name), or Raise when name is None
suggest_item_name(item, domains) ==
  IF item.name.t = "None" THEN Raise
  ELSE Return(suggest_for(Strip(IF Has(item.name) THEN item.name.v ELSE ""), domains))

\* re.search(pattern, domain, re.I) for the pattern of rule, given the
\* lower-cased domain
RuleMatches(rule, lowered) ==
  \E k \in 1..Len(rule.alts) : Contains(lowered, rule.alts[k])

\* the inner loop of categorize_item: the first rule from r on that matches, 0 if none
RECURSIVE FirstRule(_, _)
FirstRule(lowered, r) ==
  IF r > Len(CATEGORY_RULES) THEN 0
  ELSE IF RuleMatches(CATEGORY_RULES[r], lowered) THEN r
  ELSE FirstRule(lowered, r + 1)

\* categorize_item(domains): [category, tags] of the first domain, in list
\* order, that some rule matches, by the first rule matching it
RECURSIVE categorize_item(_)
category_of(r, rest) ==
  IF r # 0
  THEN [category |-> CATEGORY_RULES[r].category, tags |-> CATEGORY_RULES[r].tags]
  ELSE categorize_item(rest)
\* A faulty categorize_item whose search tells upper case from lower case.
categorize_case_sensitive(domains) ==
  IF Len(domains) = 0 THEN [category |-> "General", tags |-> {"general"}]
  ELSE category_of(FirstRule(Head(domains), 1), Tail(domains))

\* A faulty categorize_item that scans the rules first and the domains
\* within: the earliest rule that any domain matches.
categorize_rule_major(domains) ==
  IF \A k \in 1..Len(domains) : FirstRule(Lower(domains[k]), 1) = 0
  THEN [category |-> "General", tags |-> {"general"}]
  ELSE category_of(MinOf({FirstRule(Lower(domains[k]), 1) : k \in 1..Len(domains)}
                           \ {0}),
                   <<>>)

categorize_item(domains) ==
  IF Len(domains) = 0 THEN [category |-> "General", tags |-> {"general"}]
  ELSE category_of(FirstRule(Lower(Head(domains)), 1), Tail(domains))

\* Faulty header lines, the category line put before the domains line.
metadata_lines_category_first(domains, category, tags, now) ==
  (IF category # "" THEN <<"Category: " \o category>> ELSE <<>>)
  \o (IF Len(domains) > 0 THEN <<"Domains: " \o Join(domains, ", ")>> ELSE <<>>)
  \o (IF tags # {} THEN <<"Tags: " \o Join(Sorted(tags), ", ")>> ELSE <<>>)
  \o <<"Processed: " \o isoformat(now)>>

\* lines 196-207 of enhance_notes
metadata_lines(domains, category, tags, now) ==
  (IF Len(domains) > 0 THEN <<"Domains: " \o Join(domains, ", ")>> ELSE <<>>)
  \o (IF category # "" THEN <<"Category: " \o category>> ELSE <<>>)
  \o (IF tags # {} THEN <<"Tags: " \o Join(Sorted(tags), ", ")>> ELSE <<>>)
  \o <<"Processed: " \o isoformat(now)>>

\* lines 212-215
combine_notes(metadata_header, current_notes) ==
  IF current_notes # ""
  THEN metadata_header \o "\n\n" \o current_notes
  ELSE metadata_header

\* enhance_notes(item, domains, category, tags) at clock reading now:
\* Return(notes), or Raise when notes is None
enhance_notes(item, domains, category, tags, now) ==
  IF item.notes.t = "None" THEN Raise
  ELSE Return(combine_notes(Join(metadata_lines(domains, category, tags, now), "\n"),
                            Strip(IF Has(item.notes) THEN item.notes.v ELSE "")))

\* A faulty lookup that does not tell upper case from lower case.
FirstNamed_ignoring_case(list, name) ==
  MinOf({k \in 1..Len(list) : Lower(list[k].name) = Lower(name)})

\* the index of the first entry of list named name, 0 if none
FirstNamed(list, name) == MinOf({k \in 1..Len(list) : list[k].name = name})

\* the entry at k if there is one, else a new entry appended: the id returned,
\* the list after the call, and whether an entry was created
found_or_created(list, name, k, id, date) ==
  IF k # 0
  THEN [id |-> list[k].id, list |-> list, created |-> FALSE]
  ELSE [id |-> id,
        list |-> Append(list, [id |-> id, name |-> name, revisionDate |-> date]),
        created |-> TRUE]

\* A faulty find_or_create_folder that never looks the name up.
always_create_folder(folders, name, next, now) ==
  found_or_created(folders, name, 0, gen_id(next), isoformat(now))

\* find_or_create_folder(folders, name); gen_id() gives gen_id(next) and
\* now() reads now when an entry is created
find_or_create_folder(folders, name, next, now) ==
  found_or_created(folders, name, FirstNamed(folders, name), gen_id(next), isoformat(now))

find_or_create_collection(collections, name, next, now) ==
  found_or_created(collections, name, FirstNamed(collections, name), gen_id(next),
                   isoformat(now))

\* ------------------------------------------------------------------------
\* Object identity: copy.deepcopy(x) gives an object that shares nothing with
\* x, so a write to the copy is not a write to x.
\* ------------------------------------------------------------------------

\* A faulty copy: the very object, as organized_item = item would give.
same_object(x) == [obj |-> x, same |-> TRUE]

deepcopy(x) == [obj |-> x, same |-> FALSE]

\* ------------------------------------------------------------------------
\* organize_item
\* ------------------------------------------------------------------------

\* lines 323-332: fields with the labels value set, k being the index of the
\* first field named labels, 0 if none
set_labels(fields, value, k) ==
  IF k # 0
  THEN [fields EXCEPT ![k].value = value]
  ELSE Append(fields, [name |-> "labels", value |-> value, type |-> 0])

labels_in(fields, value) == set_labels(fields, value, FirstNamed(fields, "labels"))

\* lines 320-333: the labels field of organized_item set to the joined tags
add_labels(organized_item, tags) ==
  IF organized_item.fields.t = "None" THEN Raise   \* next() over None
  ELSE Return([organized_item EXCEPT
                 !.fields = List(labels_in(IF Has(@) THEN @.v ELSE <<>>,
                                           Join(Sorted(tags), ", ")))])

\* lines 316-317
set_name(item, organized_item, suggested_name) ==
  IF ~suggested_name.ok THEN Raise
  ELSE IF Str(suggested_name.v) # item.name
  THEN Return([organized_item EXCEPT !.name = Str(suggested_name.v)])
  ELSE Return(organized_item)

\* lines 314-317 of the rule-based branch
apply_name(item, organized_item, domains) ==
  set_name(item, organized_item, suggest_item_name(item, domains))

\* The result of organize_item: raised, whether the call raised; result, the
\* item returned; item_after, the object passed as item as it is after the
\* call; folders and collections, the two lists after the call; category and
\* assigned, the category computed and the id assigned (Missing when none);
\* next and now, the identifier counter and the clock after the call.
\* a holds the arguments of the call, copy the deep copy of line 263.
Seen(a, copy, o) == IF copy.same THEN o ELSE a.item   \* what item reads as
Out(a, copy, raised, o, fl, cl, cat, asg, nx, nw) ==
  [raised |-> raised, result |-> o, item_after |-> Seen(a, copy, o),
   folders |-> fl, collections |-> cl, category |-> cat, assigned |-> asg,
   next |-> nx, now |-> nw]
\* A faulty failure that has filed the item under "General" before raising.
Fail_after_filing(a, copy, o) ==
  Out(a, copy, TRUE, o,
      find_or_create_folder(a.folders, "General", a.next, a.now).list,
      a.collections, "", Missing, a.next + 1, a.now)

\* lines 442-445 seen from organize_item: the call raised, having changed
\* neither list
Fail(a, copy, o) ==
  Out(a, copy, TRUE, o, a.folders, a.collections, "", Missing, a.next, a.now)

\* lines 342-343
in_folder(a, copy, cat, o, f, now1) ==
  Out(a, copy, FALSE, [o EXCEPT !.folderId = Str(f.id)], f.list, a.collections,
      cat.category, Str(f.id),
      IF f.created THEN a.next + 1 ELSE a.next,
      IF f.created THEN now1 + 1 ELSE now1)

\* lines 347-349
in_collection(a, copy, cat, o, c, now1) ==
  Out(a, copy, FALSE, [o EXCEPT !.collectionIds = List(<<c.id>>)], a.folders, c.list,
      cat.category, Str(c.id),
      IF c.created THEN a.next + 1 ELSE a.next,
      IF c.created THEN now1 + 1 ELSE now1)

\* A faulty assign that does not look at the vault type.
assign_ignoring_vault_type(a, copy, cat, o, now1) ==
  IF a.config.create_folders
  THEN in_folder(a, copy, cat, o,
                 find_or_create_folder(a.folders, cat.category, a.next, now1), now1)
  ELSE Out(a, copy, FALSE, o, a.folders, a.collections, cat.category, Missing,
           a.next, now1)

\* lines 339-351
assign(a, copy, cat, o, now1) ==
  IF a.config.create_folders /\ ~a.is_org_vault
  THEN in_folder(a, copy, cat, o,
                 find_or_create_folder(a.folders, cat.category, a.next, now1), now1)
  ELSE IF a.is_org_vault /\ a.config.create_folders
  THEN in_collection(a, copy, cat, o,
                     find_or_create_collection(a.collections, cat.category, a.next, now1),
                     now1)
  ELSE Out(a, copy, FALSE, o, a.folders, a.collections, cat.category, Missing,
           a.next, now1)

\* lines 336-337, notes being what enhance_notes gave
with_notes(a, copy, cat, o, notes) ==
  IF ~notes.ok THEN Fail(a, copy, o)
  ELSE IF a.config.add_metadata
  THEN assign(a, copy, cat, [o EXCEPT !.notes = Str(notes.v)], a.now + 1)
  ELSE assign(a, copy, cat, o, a.now)

\* lines 320-337, tagged being what the labels step gave
with_tags(a, copy, domains, cat, o, tagged) ==
  IF ~tagged.ok THEN Fail(a, copy, o)
  ELSE with_notes(a, copy, cat, tagged.v,
                  IF a.config.add_metadata
                  THEN enhance_notes(Seen(a, copy, tagged.v), domains, cat.category,
                                     cat.tags, a.now)
                  ELSE Return(""))

\* lines 314-333, named being what the name step gave
with_name(a, copy, domains, cat, named) ==
  IF ~named.ok THEN Fail(a, copy, copy.obj)
  ELSE with_tags(a, copy, domains, cat, named.v,
                 IF a.config.add_tags /\ cat.tags # {}
                 THEN add_labels(named.v, cat.tags)
                 ELSE Return(named.v))

\* A faulty rule-based branch that suggests a name whatever suggest_names says.
with_category_always_naming(a, copy, domains, cat) ==
  with_name(a, copy, domains, cat,
            apply_name(Seen(a, copy, copy.obj), copy.obj, domains))

\* lines 309-317, the rule-based branch
with_category(a, copy, domains, cat) ==
  with_name(a, copy, domains, cat,
            IF a.config.suggest_names
            THEN apply_name(Seen(a, copy, copy.obj), copy.obj, domains)
            ELSE Return(copy.obj))

\* A faulty with_domains that files an item without domains under General
\* instead of returning the copy.
with_domains_filing_all(a, copy, domains) ==
  IF ~domains.ok THEN Fail(a, copy, copy.obj)
  ELSE IF Len(domains.v) = 0
  THEN assign(a, copy, [category |-> "General", tags |-> {"general"}], copy.obj, a.now)
  ELSE with_category(a, copy, domains.v, categorize_item(domains.v))

\* lines 266-269
with_domains(a, copy, domains) ==
  IF ~domains.ok THEN Fail(a, copy, copy.obj)
  ELSE IF Len(domains.v) = 0
  THEN Out(a, copy, FALSE, copy.obj, a.folders, a.collections, "", Missing,
           a.next, a.now)
  ELSE with_category(a, copy, domains.v, categorize_item(domains.v))

\* A faulty with_copy whose copy is built key by key and leaves login out.
with_copy_without_login(a, copy) ==
  with_domains(a, [copy EXCEPT !.obj.login = Missing], parse_domains(a.item))

\* lines 262-266
with_copy(a, copy) == with_domains(a, copy, parse_domains(a.item))

\* organize_item(item, folders, collections, config, is_org_vault), rule-based
\* (config.ai_enabled is False), with the identifier counter next and the
\* clock now
organize_item(item, folders, collections, config, is_org_vault, next, now) ==
  with_copy([item |-> item, folders |-> folders, collections |-> collections,
             config |-> config, is_org_vault |-> is_org_vault, next |-> next,
             now |-> now],
            deepcopy(item))

\* ------------------------------------------------------------------------
\* Inputs
\* ------------------------------------------------------------------------

MaxItems == 2
MaxRuns == 2

Item(id, name, notes, fields, login, folderId, collectionIds) ==
  [id |-> Str(id), organizationId |-> PyNone, name |-> name, notes |-> notes,
   fields |-> fields, login |-> login, folderId |-> folderId,
   collectionIds |-> collectionIds]

Uri(s) == Dict([uri |-> Str(s)])
Login(user, uris) ==
  Dict([username |-> Str(user), password |-> Str("hunter2"), totp |-> PyNone,
        uris |-> uris])
Field(name, value) == [name |-> name, value |-> value, type |-> 0]

\* The items the item lists of the input documents are made of.
ItemTemplates == <<
  \* the item of the end-to-end tests: generic name, no notes, no fields
  Item("i1", Str("login"), Missing, Missing,
       Login("alice", List(<<Uri("https://github.com/login")>>)), Missing, Missing),
  \* a named item with notes and a custom field, folderId and collectionIds
  \* null as in a Bitwarden personal export
  Item("i2", Str("My Bank Account"), Str(" call the bank \n"),
       List(<<Field("pin", "1234")>>),
       Login("bob", List(<<Uri("https://www.paypal.com"), Uri("paypal.com")>>)),
       PyNone, PyNone),
  \* notes null, as Bitwarden exports an item without notes; a labels field
  Item("i3", Str("website"), PyNone,
       List(<<Field("labels", "old"), Field("pin", "1234")>>),
       Login("carol", List(<<Uri("gitlab.com")>>)), Missing, Missing),
  \* no login at all
  Item("i4", Str("No URL item"), Str("No URLs here"), Missing, Missing, Missing, Missing),
  \* uris that yield no domain; folder and collection keys already there
  Item("i5", Str("account"), Str(""), List(<<>>),
       Login("dave", List(<<PyNone, Dict([uri |-> PyNone]), Uri(""), Uri("https://")>>)),
       Str("f-old"), PyNone),
  \* unknown domain, fields null, no name
  Item("i6", Missing, Str("n"), PyNone,
       Login("erin", List(<<Uri("http://random-site.io/x")>>)), Missing, Missing) >>

\* Further shapes of an item, each given in a document of that one item.
ItemShapes == <<
  \* a subdomain, every key present
  Item("i7", Str("GitHub"), Str("work"), List(<<>>),
       Login("frank", List(<<Uri("https://api.github.com")>>)), PyNone, PyNone),
  \* name null
  Item("i8", PyNone, Missing, Missing,
       Login("gina", List(<<Uri("https://app.slack.com/")>>)), Missing, Missing),
  \* login null, login without uris, uris null, uris empty
  Item("s1", Str("login"), Str("keep"), Missing, PyNone, Missing, Missing),
  Item("s2", Str("login"), Str("keep"), Missing, Login("hal", Missing), Missing, Missing),
  Item("s3", Str("login"), Str("keep"), Missing, Login("ida", PyNone), Missing, Missing),
  Item("s4", Str("login"), Str("keep"), Missing, Login("jo", List(<<>>)), Missing, Missing) >>

ItemLists ==
  UNION {[1..n -> 1..Len(ItemTemplates)] : n \in 0..MaxItems}

Entry(id, name) == [id |-> id, name |-> name, revisionDate |-> "2023-05-05T10:00:00"]

\* the folders and collections keys of the input documents
Vaults == <<
  [folders |-> Missing, collections |-> Missing],
  [folders |-> List(<<>>), collections |-> Missing],
  [folders |-> List(<<Entry("f-dev", "Developer")>>), collections |-> Missing],
  [folders |-> Missing, collections |-> List(<<>>)],
  [folders |-> List(<<>>), collections |-> List(<<Entry("c-fin", "Finance")>>)],
  [folders |-> List(<<Entry("f-dev", "Developer"), Entry("f-dev2", "Developer")>>),
   collections |-> Missing] >>

DocumentOf(vault, its) ==
  Dict([encrypted |-> Str("false"), folders |-> vault.folders,
        collections |-> vault.collections, items |-> List(its)])

Document(vault, picks) ==
  DocumentOf(vault, [k \in 1..Len(picks) |-> ItemTemplates[picks[k]]])

\* the mappings given to the first call: a vault with a list of items or with
\* one item of the further shapes, and a mapping without an items key
Documents ==
  {Document(Vaults[v], picks) : v \in 1..Len(Vaults), picks \in ItemLists}
  \cup {DocumentOf(Vaults[v], <<ItemShapes[k]>>) :
          v \in 1..Len(Vaults), k \in 1..Len(ItemShapes)}
  \cup {Dict([encrypted |-> Str("false"), folders |-> List(<<>>),
              collections |-> Missing, items |-> Missing])}

\* OrganizerConfig(), lines 20-37
DefaultConfig ==
  [add_metadata |-> TRUE, suggest_names |-> TRUE, create_folders |-> TRUE,
   add_tags |-> TRUE]

Configs ==
  [add_metadata : BOOLEAN, suggest_names : BOOLEAN, create_folders : BOOLEAN,
   add_tags : BOOLEAN]

\* ------------------------------------------------------------------------
\* organize_bitwarden_export as a state machine
\* ------------------------------------------------------------------------

VARIABLES
  data,            \* the caller's document, the argument of the call
  config,          \* the OrganizerConfig of the calls
  pc,              \* "call", "loop", "returned" or "raised"
  organized_data,  \* the local organized_data
  folders,         \* the local folders
  collections,     \* the local collections
  items,           \* the local items
  i,               \* the index of the for loop, 1-based
  is_org_vault,    \* the local is_org_vault
  result,          \* the value returned, Missing until then
  shared,          \* whether organized_data is the very object data
  next_id,         \* identifiers handed out by gen_id so far
  clock,           \* readings of datetime.now() so far
  run,             \* the number of the call, 1 for the first
  input,           \* data as it was when the current call began
  first,           \* the document the first call was given
  log,             \* what the loop did to each item so far
  prev_log,        \* log as the previous call left it
  fn,              \* the helper called on its own, "none" before the call
  arg,             \* the arguments of that call
  ret              \* what that call returned, Missing before the call

vars == <<data, config, pc, organized_data, folders, collections, items, i,
          is_org_vault, result, shared, next_id, clock, run, input, first, log,
          prev_log, fn, arg, ret>>

\* the state of a direct call of a helper
helper_call == <<fn, arg, ret>>

\* no helper is called on its own
NoHelperCall ==
  /\ fn = "none"
  /\ arg = [name |-> Missing, domains |-> <<>>]
  /\ ret = Missing

Init ==
  /\ \/ data \in Documents
     \/ data = Str("not a dict")   \* no mapping
     \/ data = PyNone
     \/ data = List(<<>>)
  /\ config \in Configs
  /\ pc = "call"
  /\ organized_data = Missing
  /\ folders = <<>>
  /\ collections = <<>>
  /\ items = <<>>
  /\ i = 0
  /\ is_org_vault = FALSE
  /\ result = Missing
  /\ shared = FALSE
  /\ next_id = 0
  /\ clock = 0
  /\ run = 1
  /\ input = data
  /\ first = data
  /\ log = <<>>
  /\ prev_log = <<>>
  /\ NoHelperCall

\* what data is after a write that left organized_data as od
Caller(od) == IF shared THEN od ELSE data

\* lines 381-383: dict.get with a default
Get(d, v, default) == IF Has(v) THEN v ELSE default

\* A faulty check that hands an input that is no mapping back to the caller.
ReturnInputUnchecked ==
  /\ pc = "call"
  /\ ~IsDict(data)
  /\ result' = data
  /\ pc' = "returned"
  /\ UNCHANGED <<data, config, organized_data, folders, collections, items, i,
                 is_org_vault, shared, next_id, clock, run, input, first, log,
                 prev_log>>
  /\ UNCHANGED helper_call

\* lines 371-372: the input is no mapping
RejectInput ==
  /\ pc = "call"
  /\ ~IsDict(data)
  /\ pc' = "raised"
  /\ UNCHANGED <<data, config, organized_data, folders, collections, items, i,
                 is_org_vault, result, shared, next_id, clock, run, input, first, log,
                 prev_log>>
  /\ UNCHANGED helper_call

\* A faulty return on no items that goes through the writes of the three
\* lists first.
ReturnEmptyWithLists ==
  /\ pc = "call"
  /\ IsDict(data)
  /\ LET copy == deepcopy(data) IN
       /\ ~Truthy(Get(copy.obj, copy.obj.v.items, List(<<>>)))
       /\ organized_data' =
            Dict([copy.obj.v EXCEPT
                    !.folders = Get(copy.obj, copy.obj.v.folders, List(<<>>)),
                    !.collections = Get(copy.obj, copy.obj.v.collections, List(<<>>)),
                    !.items = Get(copy.obj, copy.obj.v.items, List(<<>>))])
       /\ shared' = copy.same
       /\ result' = organized_data'
  /\ pc' = "returned"
  /\ UNCHANGED <<data, config, folders, collections, items, i, is_org_vault,
                 next_id, clock, run, input, first, log, prev_log>>
  /\ UNCHANGED helper_call

\* lines 371-386: the copy, the three locals, and the return on no items
ReturnEmpty ==
  /\ pc = "call"
  /\ IsDict(data)
  /\ LET copy == deepcopy(data) IN
       /\ ~Truthy(Get(copy.obj, copy.obj.v.items, List(<<>>)))
       /\ organized_data' = copy.obj
       /\ shared' = copy.same
       /\ result' = copy.obj
  /\ pc' = "returned"
  /\ UNCHANGED <<data, config, folders, collections, items, i, is_org_vault,
                 next_id, clock, run, input, first, log, prev_log>>
  /\ UNCHANGED helper_call

\* lines 371-389: the copy, the three locals, the vault type
Begin ==
  /\ pc = "call"
  /\ IsDict(data)
  /\ LET copy == deepcopy(data) IN
       /\ Truthy(Get(copy.obj, copy.obj.v.items, List(<<>>)))
       /\ organized_data' = copy.obj
       /\ shared' = copy.same
       /\ folders' = Get(copy.obj, copy.obj.v.folders, List(<<>>)).v
       /\ collections' = Get(copy.obj, copy.obj.v.collections, List(<<>>)).v
       /\ items' = copy.obj.v.items.v
       /\ is_org_vault' = Has(copy.obj.v.collections)
  /\ i' = 1
  /\ pc' = "loop"
  /\ UNCHANGED <<data, config, result, next_id, clock, run, input, first, log, prev_log>>
  /\ UNCHANGED helper_call

\* organized_data as the in-place writes to its lists leave it: a list that
\* organized_data holds is the very list the local names
Written(od, fl, cl, its) ==
  Dict([od.v EXCEPT
          !.folders = IF Has(od.v.folders) THEN List(fl) ELSE @,
          !.collections = IF Has(od.v.collections) THEN List(cl) ELSE @,
          !.items = List(its)])

\* A faulty store that drops the item whose call raised.
store_dropping_failed(its, k, r) ==
  IF r.raised
  THEN [j \in 1..(Len(its) - 1) |-> IF j < k THEN its[j] ELSE its[j + 1]]
  ELSE [its EXCEPT ![k] = r.result]

\* lines 441 and 442-445: items after the call r for items[i], the item
\* replaced by the one returned, or left in place when the call raised
store(its, k, r) == [its EXCEPT ![k] = IF r.raised THEN r.item_after ELSE r.result]

\* lines 438-445: one turn of the loop, organize_item and its except clause
OrganizeNext ==
  /\ pc = "loop"
  /\ i <= Len(items)
  /\ \E r \in {organize_item(items[i], folders, collections, config, is_org_vault,
                              next_id, clock)} :
        /\ items' = store(items, i, r)
        /\ folders' = r.folders
        /\ collections' = r.collections
        /\ next_id' = r.next
        /\ clock' = r.now
        /\ organized_data' = Written(organized_data, r.folders, r.collections, items')
        /\ data' = Caller(organized_data')
        /\ log' = Append(log, [raised |-> r.raised, category |-> r.category,
                               assigned |-> r.assigned, before |-> items[i],
                               after |-> r.item_after, next |-> next_id,
                               now |-> clock])
  /\ i' = i + 1
  /\ UNCHANGED <<config, pc, is_org_vault, result, shared, run, input, first, prev_log>>
  /\ UNCHANGED helper_call

\* lines 447-452: the lists put back, the return
Finish ==
  /\ pc = "loop"
  /\ i > Len(items)
  /\ organized_data' = Dict([organized_data.v EXCEPT
                               !.folders = List(folders),
                               !.collections = List(collections),
                               !.items = List(items)])
  /\ data' = Caller(organized_data')
  /\ result' = organized_data'
  /\ pc' = "returned"
  /\ UNCHANGED <<config, folders, collections, items, i, is_org_vault, shared,
                 next_id, clock, run, input, first, log, prev_log>>
  /\ UNCHANGED helper_call

\* the caller organizes the document it was returned, same configuration
Rerun ==
  /\ pc = "returned"
  /\ run < MaxRuns
  /\ data' = result
  /\ input' = result
  /\ run' = run + 1
  /\ pc' = "call"
  /\ organized_data' = Missing
  /\ folders' = <<>>
  /\ collections' = <<>>
  /\ items' = <<>>
  /\ i' = 0
  /\ is_org_vault' = FALSE
  /\ result' = Missing
  /\ shared' = FALSE
  /\ log' = <<>>
  /\ prev_log' = log
  /\ UNCHANGED <<config, next_id, clock, first>>
  /\ UNCHANGED helper_call

Next == RejectInput \/ ReturnEmpty \/ Begin \/ OrganizeNext \/ Finish \/ Rerun

Spec == Init /\ [][Next]_vars

\* ------------------------------------------------------------------------
\* categorize_item and suggest_item_name called on their own
\* ------------------------------------------------------------------------

MaxDomains == 2

\* domains as parse_domains gives them and as a caller may write them
DomainPool ==
  <<"example.com", "api.service.org", "paypal.com", "github.com", "app.slack.com",
    "aws.amazon.com", "GitLab.com">>

DomainLists ==
  {[k \in 1..n |-> DomainPool[picks[k]]] :
     n \in 0..MaxDomains, picks \in [1..MaxDomains -> 1..Len(DomainPool)]}

\* the name key of the item: absent, null, generic, padded, empty, good,
\* blank, generic in upper case, a generic word within a longer name
NamePool ==
  <<Missing, PyNone, Str("login"), Str(" Website "), Str(""),
    Str("My Bank Account"), Str(" My Bank Account "),
    Str("  "), Str("ACCOUNT"), Str("login page")>>

HelperInit ==
  /\ data = PyNone
  /\ config = DefaultConfig
  /\ pc = "helper"
  /\ organized_data = Missing
  /\ folders = <<>>
  /\ collections = <<>>
  /\ items = <<>>
  /\ i = 0
  /\ is_org_vault = FALSE
  /\ result = Missing
  /\ shared = FALSE
  /\ next_id = 0
  /\ clock = 0
  /\ run = 1
  /\ input = data
  /\ first = data
  /\ log = <<>>
  /\ prev_log = <<>>
  /\ fn = "none"
  /\ \E n \in 1..Len(NamePool), d \in DomainLists :
       arg = [name |-> NamePool[n], domains |-> d]
  /\ ret = Missing

\* categorize_item(domains)
CallCategorize ==
  /\ pc = "helper"
  /\ fn = "none"
  /\ fn' = "categorize_item"
  /\ ret' = categorize_item(arg.domains)
  /\ UNCHANGED <<data, config, pc, organized_data, folders, collections, items, i,
                 is_org_vault, result, shared, next_id, clock, run, input, first, log,
                 prev_log, arg>>

\* suggest_item_name({"name": name}, domains)
CallSuggest ==
  /\ pc = "helper"
  /\ fn = "none"
  /\ fn' = "suggest_item_name"
  /\ ret' = suggest_item_name([name |-> arg.name], arg.domains)
  /\ UNCHANGED <<data, config, pc, organized_data, folders, collections, items, i,
                 is_org_vault, result, shared, next_id, clock, run, input, first, log,
                 prev_log, arg>>

\* lines 314-317 on the item {"name": name}: the name of the organized item
CallApplyName ==
  /\ pc = "helper"
  /\ fn = "none"
  /\ fn' = "apply_name"
  /\ ret' = apply_name([name |-> arg.name], [name |-> arg.name], arg.domains)
  /\ UNCHANGED <<data, config, pc, organized_data, folders, collections, items, i,
                 is_org_vault, result, shared, next_id, clock, run, input, first, log,
                 prev_log, arg>>

HelperNext == CallCategorize \/ CallSuggest \/ CallApplyName

HelperSpec == HelperInit /\ [][HelperNext]_vars

\* ------------------------------------------------------------------------
\* find_or_create_folder and find_or_create_collection called in sequence
\* ------------------------------------------------------------------------

MaxCalls == 2

\* the lists the calls start from: empty, one entry, two entries, and two
\* entries of one name
RegistryLists ==
  {<<>>,
   <<Entry("f-dev", "Developer")>>,
   <<Entry("f-dev", "Developer"), Entry("f-fin", "Finance")>>,
   <<Entry("f-dev", "Developer"), Entry("f-dev2", "Developer")>>}

\* the names asked for: categories, and one that differs in case only
RegistryNames == {"Developer", "developer", "Finance", "General"}

RegistryInit ==
  /\ data = PyNone
  /\ config = DefaultConfig
  /\ pc = "registry"
  /\ organized_data = Missing
  /\ folders \in RegistryLists
  /\ collections \in RegistryLists
  /\ items = <<>>
  /\ i = 0
  /\ is_org_vault = FALSE
  /\ result = Missing
  /\ shared = FALSE
  /\ next_id = 0
  /\ clock = 0
  /\ run = 1
  /\ input = data
  /\ first = data
  /\ log = <<>>
  /\ prev_log = <<>>
  /\ fn = "none"
  /\ arg = [name |-> "", before |-> <<>>]
  /\ ret = Missing

\* find_or_create_folder(folders, name); i counts the calls made, arg holds
\* the name and the list as it was before the call
CallFindOrCreateFolder ==
  /\ pc = "registry"
  /\ i < MaxCalls
  /\ \E name \in RegistryNames :
       \E f \in {find_or_create_folder(folders, name, next_id, clock)} :
         /\ folders' = f.list
         /\ ret' = f.id
         /\ next_id' = IF f.created THEN next_id + 1 ELSE next_id
         /\ clock' = IF f.created THEN clock + 1 ELSE clock
         /\ arg' = [name |-> name, before |-> folders]
  /\ fn' = "find_or_create_folder"
  /\ i' = i + 1
  /\ UNCHANGED <<data, config, pc, organized_data, collections, items, is_org_vault,
                 result, shared, run, input, first, log, prev_log>>

\* find_or_create_collection(collections, name)
CallFindOrCreateCollection ==
  /\ pc = "registry"
  /\ i < MaxCalls
  /\ \E name \in RegistryNames :
       \E c \in {find_or_create_collection(collections, name, next_id, clock)} :
         /\ collections' = c.list
         /\ ret' = c.id
         /\ next_id' = IF c.created THEN next_id + 1 ELSE next_id
         /\ clock' = IF c.created THEN clock + 1 ELSE clock
         /\ arg' = [name |-> name, before |-> collections]
  /\ fn' = "find_or_create_collection"
  /\ i' = i + 1
  /\ UNCHANGED <<data, config, pc, organized_data, folders, items, is_org_vault,
                 result, shared, run, input, first, log, prev_log>>

RegistryNext == CallFindOrCreateFolder \/ CallFindOrCreateCollection

RegistrySpec == RegistryInit /\ [][RegistryNext]_vars

\* ------------------------------------------------------------------------
\* parse_domains and get_registrable_domain called on their own
\* ------------------------------------------------------------------------

MaxUris == 2

\* the entries of login.uris: URLs, raw hosts, a host in upper case with
\* www., a port, and the malformed ones: null, uri null, uri empty, an
\* unpaired bracket (urlparse raises ValueError), no host
UriPool ==
  <<Uri("https://example.com/login"), Uri("https://WWW.EXAMPLE.COM/path"),
    Uri("api.service.co.uk"), Uri("test.org"), Uri("ftp://old-site.net"),
    Uri("https://Example.com:8080/x"),
    PyNone, Dict([uri |-> PyNone]), Uri(""), Uri("http://[::1"), Uri("https://")>>

\* the hosts given to get_registrable_domain
HostPool ==
  {"", "localhost", "test.org", "co.uk", "service.co.uk", "api.service.co.uk",
   "a.b.example.com", "www.example.com", "shop.x.com.au", "a.b.c.gov.uk"}

\* the item whose login holds the uris
ItemWithUris(uris) ==
  Item("u1", Str("login"), Missing, Missing, Login("kim", List(uris)), Missing, Missing)

DomainInit ==
  /\ data = PyNone
  /\ config = DefaultConfig
  /\ pc = "domains"
  /\ organized_data = Missing
  /\ folders = <<>>
  /\ collections = <<>>
  /\ items = <<>>
  /\ i = 0
  /\ is_org_vault = FALSE
  /\ result = Missing
  /\ shared = FALSE
  /\ next_id = 0
  /\ clock = 0
  /\ run = 1
  /\ input = data
  /\ first = data
  /\ log = <<>>
  /\ prev_log = <<>>
  /\ fn = "none"
  /\ \/ \E n \in 0..MaxUris, picks \in [1..MaxUris -> 1..Len(UriPool)] :
          arg = [uris |-> [k \in 1..n |-> UriPool[picks[k]]], host |-> ""]
     \/ \E host \in HostPool : arg = [uris |-> <<>>, host |-> host]
  /\ ret = Missing

\* parse_domains({"login": {"uris": uris}})
CallParseDomains ==
  /\ pc = "domains"
  /\ fn = "none"
  /\ fn' = "parse_domains"
  /\ ret' = parse_domains(ItemWithUris(arg.uris))
  /\ UNCHANGED <<data, config, pc, organized_data, folders, collections, items, i,
                 is_org_vault, result, shared, next_id, clock, run, input, first, log,
                 prev_log, arg>>

\* get_registrable_domain(host)
CallRegistrable ==
  /\ pc = "domains"
  /\ fn = "none"
  /\ fn' = "get_registrable_domain"
  /\ ret' = get_registrable_domain(arg.host)
  /\ UNCHANGED <<data, config, pc, organized_data, folders, collections, items, i,
                 is_org_vault, result, shared, next_id, clock, run, input, first, log,
                 prev_log, arg>>

\* organize_item(item, [], [], OrganizerConfig()) on the item with the uris
CallOrganizeItem ==
  /\ pc = "domains"
  /\ fn = "none"
  /\ fn' = "organize_item"
  /\ ret' = organize_item(ItemWithUris(arg.uris), <<>>, <<>>, DefaultConfig, FALSE, 0, 0)
  /\ UNCHANGED <<data, config, pc, organized_data, folders, collections, items, i,
                 is_org_vault, result, shared, next_id, clock, run, input, first, log,
                 prev_log, arg>>

DomainNext == CallParseDomains \/ CallRegistrable \/ CallOrganizeItem

DomainSpec == DomainInit /\ [][DomainNext]_vars

\* ------------------------------------------------------------------------
\* organize_item called once under every OrganizerConfig
\* ------------------------------------------------------------------------

\* the items of the calls
FlagItems == ItemTemplates \o ItemShapes

FlagInit ==
  /\ data = PyNone
  /\ config \in Configs
  /\ pc = "flags"
  /\ organized_data = Missing
  /\ folders \in RegistryLists
  /\ collections \in RegistryLists
  /\ \E k \in 1..Len(FlagItems) : items = <<FlagItems[k]>>
  /\ i = 0
  /\ is_org_vault \in BOOLEAN
  /\ result = Missing
  /\ shared = FALSE
  /\ next_id = 0
  /\ clock = 0
  /\ run = 1
  /\ input = data
  /\ first = data
  /\ log = <<>>
  /\ prev_log = <<>>
  /\ fn = "none"
  /\ arg = Missing
  /\ ret = Missing

\* organize_item(item, folders, collections, config, is_org_vault)
CallOrganizeItemWithConfig ==
  /\ pc = "flags"
  /\ fn = "none"
  /\ fn' = "organize_item"
  /\ ret' = organize_item(items[1], folders, collections, config, is_org_vault,
                          next_id, clock)
  /\ UNCHANGED <<data, config, pc, organized_data, folders, collections, items, i,
                 is_org_vault, result, shared, next_id, clock, run, input, first, log,
                 prev_log, arg>>

FlagNext == CallOrganizeItemWithConfig

FlagSpec == FlagInit /\ [][FlagNext]_vars

\* ------------------------------------------------------------------------
\* Properties
\* ------------------------------------------------------------------------

\* the call returned a document with an items list
Returned == pc = "returned" /\ IsList(result.v.items)
InItems == input.v.items.v
OutItems == result.v.items.v
Entries(v) == IF IsList(v) THEN v.v ELSE <<>>
\* a key carries an assignment when it is there and not null
Assigned(v) == v.t \notin {"missing", "None"}
MutableKeys == {"name", "notes", "fields", "folderId", "collectionIds"}
NoDomain(item) ==
  \/ ~Truthy(item.login)
  \/ ~Truthy(item.login.v.uris)
  \/ parse_domains(item) = Return(<<>>)
HasDomain(item) == parse_domains(item).ok /\ parse_domains(item) # Return(<<>>)
LabelsOf(item) ==
  IF IsList(item.fields)
  THEN SelectSeq(item.fields.v, LAMBDA f : f.name = "labels")
  ELSE <<>>
CountNamed(list, name) == Cardinality({k \in 1..Len(list) : list[k].name = name})
CountLines(lines, prefix) ==
  Cardinality({k \in 1..Len(lines) : StartsWith(lines[k], prefix)})
EndsWith(s, p) == Len(p) <= Len(s) /\ SubSeq(s, Len(s) - Len(p) + 1, Len(s)) = p
RegistryIn == Entries(IF is_org_vault THEN input.v.collections ELSE input.v.folders)
RegistryOut == Entries(IF is_org_vault THEN result.v.collections ELSE result.v.folders)

\* C1: whatever the document and the flags, every key of an item other than
\* name, notes, fields, folderId and collectionIds, the login object in
\* particular, has in the output exactly the value it had in the input.
C1_OtherKeysKept ==
  Returned =>
    /\ Len(OutItems) = Len(InItems)
    /\ \A k \in 1..Len(InItems) :
         \A key \in (DOMAIN InItems[k]) \ MutableKeys :
           OutItems[k][key] = InItems[k][key]

\* an item came out with all five keys changed, its login as it was given
C1_Witness ==
  /\ Returned
  /\ \E k \in 1..Len(InItems) :
       /\ \A key \in MutableKeys \ {"collectionIds"} : OutItems[k][key] # InItems[k][key]
       /\ InItems[k].login.v.password = Str("hunter2")
       /\ OutItems[k].login = InItems[k].login

\* C2: while the call runs and when it has returned, failing items included,
\* the items list is as long as the input list, and item k is the one made
\* from input item k: nothing is removed, added or reordered.
C2_SameItemsSameOrder ==
  (pc \in {"loop", "returned"} /\ IsList(input.v.items)) =>
    /\ Len(items) = Len(InItems)
    /\ \A k \in 1..Len(items) : items[k].id = InItems[k].id
    /\ \A k \in 1..Len(log) : log[k].before = InItems[k]
    /\ pc = "returned" => OutItems = items

\* two different items, one of which failed and one of which was changed
C2_Witness ==
  /\ Returned
  /\ Len(OutItems) = 2
  /\ OutItems[1].id # OutItems[2].id
  /\ \E k \in 1..2 : log[k].raised
  /\ \E k \in 1..2 : ~log[k].raised /\ OutItems[k] # InItems[k]

\* C3: the caller's document is at every moment what it was when the call
\* began, and the item passed to organize_item is after each call what it was
\* before it, whether the call returned or raised.
C3_ArgumentsNotModified ==
  /\ data = input
  /\ \A k \in 1..Len(log) : log[k].after = log[k].before

\* a call of organize_item raised, another returned a changed item, and the
\* document returned differs from the one passed
C3_Witness ==
  /\ Returned
  /\ result # input
  /\ \E k \in 1..Len(log) : log[k].raised
  /\ \E k \in 1..Len(log) : ~log[k].raised /\ OutItems[k] # log[k].before

\* C4: a second run on the output of the first, same configuration, gives
\* every item the category of the first run, leaves the folders and the
\* collections as the first run left them, and leaves each item's labels
\* fields as they were.
C4_SecondRunStable ==
  (Returned /\ run > 1) =>
    /\ \A k \in 1..Len(log) : log[k].category = prev_log[k].category
    /\ Entries(result.v.folders) = Entries(input.v.folders)
    /\ Entries(result.v.collections) = Entries(input.v.collections)
    /\ \A k \in 1..Len(InItems) : LabelsOf(OutItems[k]) = LabelsOf(InItems[k])

\* C5: after a second run with add_metadata, the notes of each organized item
\* hold one Category line, at most one Tags line, and end with the notes the
\* user had written.
C5_OneHeaderAfterRerun ==
  (Returned /\ run > 1 /\ config.add_metadata) =>
    \A k \in 1..Len(log) :
      (~log[k].raised /\ log[k].category # "") =>
        /\ CountLines(Split(OutItems[k].notes.v, "\n"), "Category: ") = 1
        /\ CountLines(Split(OutItems[k].notes.v, "\n"), "Tags: ") <= 1
        /\ IsStr(first.v.items.v[k].notes) =>
             EndsWith(OutItems[k].notes.v, Strip(first.v.items.v[k].notes.v))

\* C6: when no item of the first document has a folderId or a collectionIds
\* key, no item of any document returned carries both assignments.
C6_NeverBothAssignments ==
  (Returned /\ \A k \in 1..Len(first.v.items.v) :
                 ~Has(first.v.items.v[k].folderId)
                 /\ ~Has(first.v.items.v[k].collectionIds)) =>
    \A k \in 1..Len(OutItems) :
      ~(Assigned(OutItems[k].folderId) /\ Assigned(OutItems[k].collectionIds))

\* C7 as stated: no output item of a personal-vault document carries
\* collectionIds, no output item of an organization document carries folderId.
C7_NoOtherAssignmentCarried ==
  Returned =>
    /\ ~Has(input.v.collections) =>
         \A k \in 1..Len(OutItems) : ~Assigned(OutItems[k].collectionIds)
    /\ Has(input.v.collections) =>
         \A k \in 1..Len(OutItems) : ~Assigned(OutItems[k].folderId)

\* C7: a run on a personal-vault document leaves the collectionIds of every
\* item as the input had it, absent if absent, and a run on an organization
\* document leaves the folderId of every item as the input had it.
C7_OtherAssignmentUntouched ==
  Returned =>
    /\ Len(OutItems) = Len(InItems)
    /\ ~Has(input.v.collections) =>
         \A k \in 1..Len(OutItems) : OutItems[k].collectionIds = InItems[k].collectionIds
    /\ Has(input.v.collections) =>
         \A k \in 1..Len(OutItems) : OutItems[k].folderId = InItems[k].folderId

\* the first run of an organization document, one item of which came with a
\* folderId, has put an item into a collection
C7_Witness ==
  /\ Returned
  /\ run = 1
  /\ Has(input.v.collections)
  /\ \E k \in 1..Len(InItems) : Assigned(InItems[k].folderId)
  /\ \E k \in 1..Len(log) : log[k].assigned # Missing

\* C8: a turn of the loop for an item without login, without uris or whose
\* uris yield no domain leaves the item, the folders and the collections as
\* they were, under every configuration.
C8_NoDomainNoChange ==
  [][(pc = "loop" /\ i <= Len(items) /\ NoDomain(items[i])) =>
       (items' = items /\ folders' = folders /\ collections' = collections)]_vars

\* with every flag set, the call for an item without domains has returned
\* next to a call that created a folder
C8_Witness ==
  /\ config = DefaultConfig
  /\ Len(log) = 2
  /\ NoDomain(log[2].before)
  /\ ~log[2].raised
  /\ log[1].assigned # Missing
  /\ Len(folders) > 0

\* C9: under the default configuration every item whose uris yield a domain
\* comes out with the one assignment of the run, folderId in a personal
\* vault, a one-element collectionIds in an organization vault, and the other
\* key as it came.
C9_EveryDomainItemAssigned ==
  (Returned /\ config = DefaultConfig) =>
    \A k \in 1..Len(log) :
      HasDomain(log[k].before) =>
        /\ log[k].assigned # Missing
        /\ IF is_org_vault
           THEN /\ OutItems[k].collectionIds = List(<<log[k].assigned.v>>)
                /\ ~Assigned(OutItems[k].folderId)
           ELSE /\ OutItems[k].folderId = log[k].assigned
                /\ ~Assigned(OutItems[k].collectionIds)

\* C10: the id a run assigned to an item is in the item's folderId, or is the
\* one element of its collectionIds, and is the id of an entry of the output
\* list named as the item's category; items of one category were assigned one
\* id; and the run added an entry of that name only when the input list had
\* none, and then one.
C10_AssignedIdNamesCategory ==
  Returned =>
    /\ \A k \in 1..Len(log) :
         log[k].assigned # Missing =>
           /\ \E e \in 1..Len(RegistryOut) :
                /\ RegistryOut[e].id = log[k].assigned.v
                /\ RegistryOut[e].name = log[k].category
           /\ IF is_org_vault
              THEN OutItems[k].collectionIds = List(<<log[k].assigned.v>>)
              ELSE OutItems[k].folderId = log[k].assigned
           /\ CountNamed(RegistryOut, log[k].category) =
                IF CountNamed(RegistryIn, log[k].category) = 0
                THEN 1
                ELSE CountNamed(RegistryIn, log[k].category)
    /\ \A j, k \in 1..Len(log) :
         (log[j].assigned # Missing /\ log[k].assigned # Missing
          /\ log[j].category = log[k].category) =>
           log[j].assigned = log[k].assigned

\* two items of one category were put into the one folder the run created
C10_Witness ==
  /\ Returned
  /\ Len(log) = 2
  /\ ~is_org_vault
  /\ log[1].assigned # Missing
  /\ log[1].assigned = log[2].assigned
  /\ log[1].category = log[2].category
  /\ CountNamed(RegistryIn, log[1].category) = 0
  /\ CountNamed(RegistryOut, log[1].category) = 1

\* C11: an input that is no mapping makes the call raise (the ValueError of
\* line 372) before anything is done: nothing is copied, no item is
\* organized, no folder or collection is looked up, nothing is returned and
\* the caller's value is as it was.
C11_NonMappingRaises ==
  ~IsDict(input) =>
    /\ pc \in {"call", "raised"}
    /\ result = Missing
    /\ organized_data = Missing
    /\ log = <<>>
    /\ folders = <<>> /\ collections = <<>> /\ items = <<>>
    /\ next_id = 0 /\ clock = 0
    /\ data = input

\* the call raised on a list, which is no mapping
C11_Witness == pc = "raised" /\ IsList(input)

\* C12: a mapping that holds no items sequence is rejected before anything
\* is done: the call does not return, it has no result.
C12_NoItemsSequenceRejected ==
  (IsDict(input) /\ ~IsList(input.v.items)) =>
    /\ pc \in {"call", "raised"}
    /\ result = Missing

\* C13: when the items list of the document is empty the call returns a
\* document equal to the input: no folders or collections key is added, no
\* folder or collection is created, no item is looked at, and the caller's
\* document is as it was.
C13_EmptyItemsReturnedAsGiven ==
  (pc = "returned" /\ IsList(input.v.items) /\ Len(InItems) = 0) =>
    /\ result = input
    /\ data = input
    /\ folders = <<>> /\ collections = <<>>
    /\ log = <<>>

\* a document with no items and no folders or collections key was returned
C13_Witness ==
  /\ pc = "returned"
  /\ run = 1
  /\ IsList(input.v.items)
  /\ Len(InItems) = 0
  /\ ~Has(input.v.folders)
  /\ ~Has(input.v.collections)
  /\ ~Has(result.v.folders)

\* seq without its k-th element
Without(seq, k) == [j \in 1..(Len(seq) - 1) |-> IF j < k THEN seq[j] ELSE seq[j + 1]]

\* lines 436-452 as a function of the item list: the items, folders and
\* collections that the loop leaves, started with the lists and counters st
\* and having stored done so far
RECURSIVE organize_all(_, _, _, _, _)
organize_rest(its, cfg, org, done, r) ==
  organize_all(Tail(its), cfg, org,
               [folders |-> r.folders, collections |-> r.collections,
                next |-> r.next, now |-> r.now],
               Append(done, IF r.raised THEN Head(its) ELSE r.result))
organize_all(its, cfg, org, st, done) ==
  IF its = <<>>
  THEN [items |-> done, folders |-> st.folders, collections |-> st.collections]
  ELSE organize_rest(its, cfg, org, done,
                     organize_item(Head(its), st.folders, st.collections, cfg, org,
                                   st.next, st.now))

\* the lists and counters the current call started with
StartOfRun ==
  [folders |-> Get(input, input.v.folders, List(<<>>)).v,
   collections |-> Get(input, input.v.collections, List(<<>>)).v,
   next |-> log[1].next, now |-> log[1].now]

\* the call left what e holds, but for the k-th item
AsWithout(k, e) ==
  /\ Without(OutItems, k) = e.items
  /\ folders = e.folders
  /\ collections = e.collections
  /\ result.v.folders = List(e.folders)
  /\ result.v.collections = List(e.collections)

\* C14: when organize_item raises for an item the call still returns (a
\* mapping never makes it raise); the output holds the input item unmodified
\* at that index; the other items, the folders and the collections are
\* exactly what the call gives for the document without the failing item,
\* so the failing item adds no folder and no collection.
C14_FailingItemSkipped ==
  /\ pc = "raised" => ~IsDict(input)
  /\ (Returned /\ Len(InItems) > 0) =>
       \A k \in 1..Len(log) :
         log[k].raised =>
           /\ OutItems[k] = InItems[k]
           /\ AsWithout(k, organize_all(Without(InItems, k), config, is_org_vault,
                                        StartOfRun, <<>>))

\* the call returned with a failed item followed by one that was filed
C14_Witness ==
  /\ Returned
  /\ Len(log) = 2
  /\ log[1].raised
  /\ ~log[2].raised
  /\ Has(log[2].assigned)
  /\ OutItems[1] = InItems[1]
  /\ OutItems[2] # InItems[2]

\* C15 as stated: with metadata annotation on, the notes of an organized item
\* that has a domain begin with the line "Category: <category>".
C15_NotesBeginWithCategory ==
  (Returned /\ config.add_metadata) =>
    \A k \in 1..Len(log) :
      (~log[k].raised /\ HasDomain(log[k].before)) =>
        StartsWith(OutItems[k].notes.v, "Category: " \o log[k].category \o "\n")

\* C15, amended: with metadata annotation on, the notes of an item that
\* organize_item returned and that has a domain begin with the line
\* "Domains: <the domains, comma separated>", and their second line is
\* "Category: <category>".
C15_NotesBeginWithDomainsThenCategory ==
  (Returned /\ config.add_metadata) =>
    \A k \in 1..Len(log) :
      ~log[k].raised =>
        \A domains \in {parse_domains(log[k].before)} :
          (domains.ok /\ Len(domains.v) > 0) =>
            StartsWith(OutItems[k].notes.v,
                       "Domains: " \o Join(domains.v, ", ")
                         \o "\nCategory: " \o log[k].category \o "\n")

\* the item of https://github.com/login came out with its two first lines
C15_Witness ==
  /\ Returned
  /\ run = 1
  /\ config.add_metadata
  /\ \E k \in 1..Len(log) :
       /\ ~log[k].raised
       /\ StartsWith(OutItems[k].notes.v, "Domains: github.com\nCategory: Developer\n")

\* the (domain, rule) pairs, as indexes, of a search that matches
MatchingPairs(domains) ==
  {p \in (1..Len(domains)) \X (1..Len(CATEGORY_RULES)) :
     RuleMatches(CATEGORY_RULES[p[2]], Lower(domains[p[1]]))}
\* the first of them, domains in list order and for each domain the rules in
\* rule order
FirstPair(pairs) ==
  CHOOSE p \in pairs :
    \A q \in pairs : p[1] < q[1] \/ (p[1] = q[1] /\ p[2] <= q[2])
PairOf(r) == [category |-> CATEGORY_RULES[r].category, tags |-> CATEGORY_RULES[r].tags]

\* C16: categorize_item returns the (category, tags) of the first (domain,
\* rule) pair that matches, domains in list order and for each domain the
\* rules in rule order, the search not telling upper case from lower case
\* ("GitLab.com" is Developer); when no pair matches it returns exactly
\* ("General", {"general"}). What it returns is always one such pair.
C16_FirstMatchingPair ==
  fn = "categorize_item" =>
    /\ DOMAIN ret = {"category", "tags"}
    /\ IF MatchingPairs(arg.domains) = {}
       THEN ret = [category |-> "General", tags |-> {"general"}]
       ELSE ret = PairOf(FirstPair(MatchingPairs(arg.domains))[2])
    /\ arg.domains = <<"GitLab.com">> => ret = [category |-> "Developer", tags |-> {"dev"}]
    /\ arg.domains = <<"aws.amazon.com">> => ret = [category |-> "Cloud", tags |-> {"cloud"}]
    /\ arg.domains = <<"example.com", "api.service.org">> =>
         ret = [category |-> "General", tags |-> {"general"}]

\* an unmatched domain was passed over and the next one decided, in upper case
C16_Witness ==
  /\ fn = "categorize_item"
  /\ arg.domains = <<"example.com", "GitLab.com">>
  /\ ret = [category |-> "Developer", tags |-> {"dev"}]

\* the rules that some domain of the list matches
RulesMatched(domains) == {p[2] : p \in MatchingPairs(domains)}
\* the first domain of the list, as an index, that some rule matches
FirstMatchingDomain(domains) == MinOf({p[1] : p \in MatchingPairs(domains)})

\* C17 as stated: when the domains match several different rules the
\* category returned is that of the earliest rule among all matches,
\* whichever domain comes first.
C17_EarliestRuleAmongAll ==
  (fn = "categorize_item" /\ Cardinality(RulesMatched(arg.domains)) > 1) =>
    ret.category = CATEGORY_RULES[MinOf(RulesMatched(arg.domains))].category

\* C17, amended: when the domains match several different rules the domain
\* order decides first: the category returned is that of the earliest rule
\* matching the first domain, in list order, that matches any rule; a
\* later domain's match of an earlier rule does not count.
C17_FirstMatchingDomainDecides ==
  (fn = "categorize_item" /\ Cardinality(RulesMatched(arg.domains)) > 1) =>
    ret.category =
      CATEGORY_RULES[MinOf({p[2] : p \in {q \in MatchingPairs(arg.domains) :
                                            q[1] = FirstMatchingDomain(arg.domains)}})
                    ].category

\* a Social domain listed before a Finance domain gave Social
C17_Witness ==
  /\ fn = "categorize_item"
  /\ arg.domains = <<"app.slack.com", "paypal.com">>
  /\ ret.category = "Social"

\* the name key holds a generic name: absent or empty, blank, or one of the
\* generic words
GenericName(n) == n.t # "None" /\ MatchesGeneric(IF Has(n) THEN n.v ELSE "")
\* the domain has more than two labels
HasSubdomain(d) == Cardinality(Occurrences(d, ".")) > 1
\* a comes before b: the shorter, then the alphabetically first
ShorterThenAlphabetical(a, b) == Len(a) < Len(b) \/ (Len(a) = Len(b) /\ StrLess(a, b))
PlainFirst(a, b) ==
  \/ ~HasSubdomain(a) /\ HasSubdomain(b)
  \/ HasSubdomain(a) = HasSubdomain(b) /\ ShorterThenAlphabetical(a, b)
SubdomainFirst(a, b) ==
  \/ HasSubdomain(a) /\ ~HasSubdomain(b)
  \/ HasSubdomain(a) = HasSubdomain(b) /\ ShorterThenAlphabetical(a, b)
\* the domain of the list that none comes before
Preferred(domains, Before(_, _)) ==
  CHOOSE d \in {domains[k] : k \in 1..Len(domains)} :
    \A k \in 1..Len(domains) : ~Before(domains[k], d)
\* suggest_item_name was called with a generic name and at least one domain
GenericWithDomains ==
  fn = "suggest_item_name" /\ GenericName(arg.name) /\ Len(arg.domains) > 0

\* C18 as stated: for a generic name and at least one domain, the name
\* returned is derived from the domain chosen by: without a subdomain before
\* with one, then the shortest, then the alphabetically first.
C18_PlainDomainPreferred ==
  GenericWithDomains =>
    ret = Return(name_from_domain(Preferred(arg.domains, PlainFirst)))

\* C18, amended: for a generic name and at least one domain, the name
\* returned is derived from the domain chosen by: with a subdomain before
\* without one, then the shortest, then the alphabetically first.
C18_SubdomainPreferred ==
  GenericWithDomains =>
    ret = Return(name_from_domain(Preferred(arg.domains, SubdomainFirst)))

\* a longer domain with a subdomain was chosen over a shorter one without
C18_Witness ==
  /\ fn = "suggest_item_name"
  /\ arg = [name |-> Str(" Website "), domains |-> <<"paypal.com", "aws.amazon.com">>]
  /\ ret = Return("Amazon.com")

\* C19: for a generic name and a list that holds both a two-label domain
\* and a domain with a subdomain, the name returned is the capitalized
\* registrable form of one of the domains with a subdomain; "login" with
\* ["example.com", "api.service.org"] gives "Service.org".
C19_NameFromSubdomainBearing ==
  /\ ( /\ GenericWithDomains
       /\ \E k \in 1..Len(arg.domains) : ~HasSubdomain(arg.domains[k])
       /\ \E k \in 1..Len(arg.domains) : HasSubdomain(arg.domains[k]) ) =>
       \E k \in 1..Len(arg.domains) :
         /\ HasSubdomain(arg.domains[k])
         /\ ret = Return(Capitalize(get_registrable_domain(arg.domains[k])))
  /\ ( /\ fn = "suggest_item_name"
       /\ arg = [name |-> Str("login"), domains |-> <<"example.com", "api.service.org">>] ) =>
       ret = Return("Service.org")

\* the call of the example returned
C19_Witness ==
  /\ fn = "suggest_item_name"
  /\ arg = [name |-> Str("login"), domains |-> <<"example.com", "api.service.org">>]
  /\ ret = Return("Service.org")

\* C20: a name that is non-empty and not generic is kept as it is, whatever
\* the domains: suggest_item_name returns exactly the current name, and the
\* name of the organized item equals the name of the input item character
\* for character.
C20_GoodNameKeptAsIs ==
  (IsStr(arg.name) /\ arg.name.v # "" /\ ~MatchesGeneric(arg.name.v)) =>
    /\ fn = "suggest_item_name" => ret = Return(arg.name.v)
    /\ fn = "apply_name" => ret = Return([name |-> arg.name])

\* the name the call was given, "" when the key is absent
NameGiven == IF Has(arg.name) THEN arg.name.v ELSE ""
\* the name is derived from one of the domains: the domain or its
\* registrable form, capitalized
DomainDerived(name, domains) ==
  \E k \in 1..Len(domains) :
    name \in {Capitalize(domains[k]), Capitalize(get_registrable_domain(domains[k]))}

\* C21: a name that, surrounding whitespace and letter case set aside, is
\* empty, "login", "website" or "account", or that is absent, is generic:
\* suggest_item_name returns a name derived from a domain when there is a
\* domain and "Website" when there is none. Every other name is not
\* generic: the name itself is returned.
C21_GenericNames ==
  (fn = "suggest_item_name" /\ arg.name # PyNone) =>
    IF Lower(Strip(NameGiven)) \in {"", "login", "website", "account"}
    THEN IF Len(arg.domains) > 0
         THEN ret.ok /\ DomainDerived(ret.v, arg.domains)
         ELSE ret = Return("Website")
    ELSE ret.ok /\ Strip(ret.v) = Strip(NameGiven)

\* "ACCOUNT" with a domain gave the name of the domain
C21_Witness ==
  /\ fn = "suggest_item_name"
  /\ arg = [name |-> Str("ACCOUNT"), domains |-> <<"paypal.com">>]
  /\ ret = Return("Paypal.com")

\* C22: the call preserves the vault type: the document returned has a
\* collections key if and only if the input document has one, so
\* is_org_export gives the same answer for both.
C22_VaultTypePreserved ==
  Returned =>
    /\ Has(result.v.collections) = Has(input.v.collections)
    /\ is_org_export(result) = is_org_export(input)

\* the list the last find_or_create call worked on, as it is after the call
ListAfter == IF fn = "find_or_create_folder" THEN folders ELSE collections
\* no two entries of list have one name
NameUnique(list) ==
  \A j, k \in 1..Len(list) : list[j].name = list[k].name => j = k
\* the indexes of the entries of list named exactly name
Named(list, name) == {k \in 1..Len(list) : list[k].name = name}

\* C23: whatever calls came before, a find_or_create call for a name that
\* has an entry returns the id of the first entry with exactly that name and
\* leaves the list as it was; a call for a name without an entry appends
\* exactly one entry {id, name, revisionDate}, whose id is the id returned
\* and differs from every id of the list, and leaves the entries before it
\* as they were and where they were; a list without two entries of one name
\* stays so.
C23_RegistryAppendOnlyNameUnique ==
  fn \in {"find_or_create_folder", "find_or_create_collection"} =>
    /\ IF Named(arg.before, arg.name) # {}
       THEN /\ ListAfter = arg.before
            /\ \E k \in Named(arg.before, arg.name) :
                 /\ ret = arg.before[k].id
                 /\ \A j \in Named(arg.before, arg.name) : k <= j
       ELSE /\ Len(ListAfter) = Len(arg.before) + 1
            /\ SubSeq(ListAfter, 1, Len(arg.before)) = arg.before
            /\ DOMAIN ListAfter[Len(ListAfter)] = {"id", "name", "revisionDate"}
            /\ ListAfter[Len(ListAfter)].name = arg.name
            /\ ListAfter[Len(ListAfter)].id = ret
            /\ \A k \in 1..Len(arg.before) : arg.before[k].id # ret
    /\ NameUnique(arg.before) => NameUnique(ListAfter)

\* after an earlier call, "developer" was asked for where "Developer" was
\* and got an entry of its own
C23_Witness ==
  /\ fn = "find_or_create_folder"
  /\ i = 2
  /\ arg.name = "developer"
  /\ Named(arg.before, "Developer") # {}
  /\ Len(folders) = Len(arg.before) + 1
  /\ NameUnique(folders)

\* the custom fields of an item, none when the key is absent
FieldsOf(item) == IF IsList(item.fields) THEN item.fields.v ELSE <<>>
\* the labels value of an item with the domains of item: its tags sorted
\* and comma-joined
LabelsValue(item) ==
  Join(Sorted(categorize_item(parse_domains(item).v).tags), ", ")
\* fields with the labels value written: over the first labels field if
\* there is one, else as a new field at the end
WithLabels(fields, value) ==
  IF FirstNamed(fields, "labels") # 0
  THEN [fields EXCEPT ![FirstNamed(fields, "labels")].value = value]
  ELSE Append(fields, [name |-> "labels", value |-> value, type |-> 0])

\* C24: with tag writing on, organize_item leaves an item that has domains
\* with a labels field holding its tags sorted and comma-joined: written
\* over the labels field there was, or appended as the last field, every
\* other field as it was and where it was.
C24_LabelsFieldWritten ==
  (Returned /\ config.add_tags) =>
    \A k \in 1..Len(log) :
      HasDomain(log[k].before) =>
        /\ ~log[k].raised
        /\ IsList(OutItems[k].fields)
        /\ OutItems[k].fields.v =
             WithLabels(FieldsOf(log[k].before), LabelsValue(log[k].before))

\* the header block of the notes of an item with the domains given, read
\* at clock reading now: domains line, category line, tags line, timestamp
HeaderBlock(domains, now) ==
  "Domains: " \o Join(domains, ", ")
    \o "\nCategory: " \o categorize_item(domains).category
    \o "\nTags: " \o Join(Sorted(categorize_item(domains).tags), ", ")
    \o "\nProcessed: " \o isoformat(now)

\* C25: with metadata annotation on, the notes of an organized item that
\* has domains are the header block, a blank line and the notes the item
\* came with, character for character, surrounding whitespace included;
\* the header block alone when the item came without notes.
C25_NotesKeptVerbatim ==
  (Returned /\ config.add_metadata) =>
    \A k \in 1..Len(log) :
      (~log[k].raised /\ HasDomain(log[k].before)) =>
        OutItems[k].notes =
          Str(HeaderBlock(parse_domains(log[k].before).v, log[k].now)
                \o (IF IsStr(log[k].before.notes) /\ log[k].before.notes.v # ""
                    THEN "\n\n" \o log[k].before.notes.v
                    ELSE ""))

\* the uri string of an entry of login.uris, "" when it has none
UriString(u) == IF IsDict(u) /\ IsStr(u.v.uri) THEN u.v.uri.v ELSE ""
\* the host part of a network location: what comes before the port
HostPart(netloc) ==
  IF Find(netloc, ":") # 0 THEN SubSeq(netloc, 1, Find(netloc, ":") - 1) ELSE netloc
\* the host of a uri string: of its network location when it is a URL, the
\* string itself when it is a raw host; "" when there is none
HostOfUri(uri) ==
  IF Contains(uri, "://") THEN HostPart(host_of_parsed(urlparse_netloc(uri))) ELSE uri
\* the registrable domain of the host of an entry, "" when it has no host
DomainOfEntry(u) ==
  get_registrable_domain(strip_www(Strip(Lower(HostOfUri(UriString(u))))))
\* the first entry, as an index, whose registrable domain is d; 0 if none
FirstEntryOf(uris, d) == MinOf({k \in 1..Len(uris) : DomainOfEntry(uris[k]) = d})

\* C26: parse_domains returns the registrable domains in first-seen order
\* without duplicates: no domain is twice in the result, every entry with a
\* host has the registrable domain of that host in the result, and the
\* result is ordered by the first entry each domain comes from.
C26_FirstSeenOrderNoDuplicates ==
  fn = "parse_domains" =>
    /\ ret.ok
    /\ \A a, b \in 1..Len(ret.v) : ret.v[a] = ret.v[b] => a = b
    /\ \A k \in 1..Len(arg.uris) :
         DomainOfEntry(arg.uris[k]) # "" => InSeq(DomainOfEntry(arg.uris[k]), ret.v)
    /\ \A a, b \in 1..Len(ret.v) :
         a < b => FirstEntryOf(arg.uris, ret.v[a]) < FirstEntryOf(arg.uris, ret.v[b])

\* the labels of a host
Labels(host) == Split(host, ".")
\* the last n labels of a host, joined
LastLabels(host, n) == Join(LastN(Labels(host), n), ".")

\* C27: the registrable domain of a host is its last three labels when it
\* has at least three and its last two, joined, are in THREE_LABEL_TLDS,
\* else its last two labels, and the host itself when it has fewer than
\* two; taking it again changes nothing. parse_domains takes it of the
\* host in lower case without one leading "www.": "https://WWW.EXAMPLE.COM/path"
\* gives "example.com", "api.service.co.uk" gives "service.co.uk" and
\* "test.org" gives "test.org", and every domain it returns is its own
\* registrable domain.
C27_RegistrableDomain ==
  /\ fn = "get_registrable_domain" =>
       /\ ret = IF arg.host = "" \/ Len(Labels(arg.host)) < 2 THEN arg.host
                ELSE IF Len(Labels(arg.host)) >= 3
                        /\ LastLabels(arg.host, 2) \in THREE_LABEL_TLDS
                     THEN LastLabels(arg.host, 3)
                     ELSE LastLabels(arg.host, 2)
       /\ get_registrable_domain(ret) = ret
       /\ arg.host = "api.service.co.uk" => ret = "service.co.uk"
       /\ arg.host = "a.b.example.com" => ret = "example.com"
       /\ arg.host = "localhost" => ret = "localhost"
  /\ fn = "parse_domains" =>
       /\ arg.uris = <<Uri("https://WWW.EXAMPLE.COM/path")>> => ret = Return(<<"example.com">>)
       /\ arg.uris = <<Uri("api.service.co.uk")>> => ret = Return(<<"service.co.uk">>)
       /\ arg.uris = <<Uri("test.org")>> => ret = Return(<<"test.org">>)
       /\ ret.ok => \A k \in 1..Len(ret.v) : get_registrable_domain(ret.v[k]) = ret.v[k]

\* a host under a three-label suffix was cut to its last three labels
C27_Witness ==
  /\ fn = "get_registrable_domain"
  /\ arg.host = "a.b.c.gov.uk"
  /\ ret = "c.gov.uk"

\* the entry is malformed: null, without a uri, or with a uri that has no host
Malformed(u) ==
  \/ ~Truthy(u)
  \/ ~Truthy(u.v.uri)
  \/ HostOfUri(u.v.uri.v) = ""
\* the entries of uris that are not malformed
WellFormed(uris) == SelectSeq(uris, LAMBDA u : ~Malformed(u))

\* C28: a malformed entry of login.uris is skipped: parse_domains does not
\* raise and returns what it returns for the other entries alone, and
\* organize_item does not raise either and files the item under the
\* category of the domains of the other entries.
C28_MalformedUriSkipped ==
  /\ fn = "parse_domains" =>
       /\ ret.ok
       /\ ret = parse_domains(ItemWithUris(WellFormed(arg.uris)))
       /\ WellFormed(arg.uris) # <<>> => ret.v # <<>>
  /\ fn = "organize_item" =>
       /\ ~ret.raised
       /\ WellFormed(arg.uris) # <<>> =>
            /\ ret.category =
                 categorize_item(parse_domains(ItemWithUris(WellFormed(arg.uris))).v).category
            /\ Assigned(ret.result.folderId)

\* an item with a uri that urlparse rejects and a good one was filed
C28_Witness ==
  /\ fn = "organize_item"
  /\ arg.uris = <<Uri("http://[::1"), Uri("ftp://old-site.net")>>
  /\ ~ret.raised
  /\ ret.category = "General"
  /\ Assigned(ret.result.folderId)

\* the string the name is made of: the registrable form of the chosen domain
\* when that differs from it, else the chosen domain
NameSource(domain) ==
  IF get_registrable_domain(domain) \notin {"", domain}
  THEN get_registrable_domain(domain)
  ELSE domain
\* the first character of s, upper-cased
FirstUpper(s) == UpperChar(CharAt(s, 1))
\* s without its first character
Rest(s) == SubSeq(s, 2, Len(s))

\* C29 as stated: the name returned for a generic name is the chosen domain,
\* or its registrable form when that differs, with its first character
\* upper-cased and every other character as it is.
C29_OnlyFirstCharacterChanged ==
  GenericWithDomains =>
    ret = Return(FirstUpper(NameSource(Preferred(arg.domains, SubdomainFirst)))
                   \o Rest(NameSource(Preferred(arg.domains, SubdomainFirst))))

\* C29, amended: the name returned for a generic name is the chosen domain,
\* or its registrable form when that differs, with its first character
\* upper-cased and every other character lower-cased; the other characters
\* are as they were when the domain holds no upper-case letter after the
\* first character.
C29_FirstUpperRestLower ==
  GenericWithDomains =>
    /\ ret = Return(FirstUpper(NameSource(Preferred(arg.domains, SubdomainFirst)))
                      \o LowerFrom(Rest(NameSource(Preferred(arg.domains, SubdomainFirst)))))
    /\ NoneIn(Rest(NameSource(Preferred(arg.domains, SubdomainFirst))), UpperLetters) =>
         Rest(ret.v) = Rest(NameSource(Preferred(arg.domains, SubdomainFirst)))

\* "GitLab.com" gave "Gitlab.com"
C29_Witness ==
  /\ fn = "suggest_item_name"
  /\ arg = [name |-> Str("login"), domains |-> <<"GitLab.com">>]
  /\ ret = Return("Gitlab.com")

\* the keys each flag of OrganizerConfig governs
FlagTargets ==
  [suggest_names |-> {"name"}, add_tags |-> {"fields"}, add_metadata |-> {"notes"},
   create_folders |-> {"folderId", "collectionIds"}]
Flags == DOMAIN FlagTargets
\* the item the export keeps for the call: the result, or the item itself
\* when the call raised
Kept == IF ret.raised THEN items[1] ELSE ret.result
EntryNames(list) == [k \in 1..Len(list) |-> list[k].name]
\* the same call with flag f on
WithFlagOn(f) ==
  organize_item(items[1], folders, collections, [config EXCEPT ![f] = TRUE],
                is_org_vault, next_id, clock)

\* C30: a flag that is off leaves its target as it was: suggest_names the
\* name, add_tags the fields, add_metadata the notes, create_folders the
\* folderId, the collectionIds and both lists; and the other steps apply as
\* they do with the flag on: whenever the call with the flag on returns, the
\* call with it off returns too, with the same values under every other key
\* and, the flag not being create_folders, the same entries in both lists.
C30_DisabledFlagsLeaveTargets ==
  (pc = "flags" /\ fn = "organize_item") =>
    /\ \A f \in Flags : ~config[f] =>
          \A key \in FlagTargets[f] : Kept[key] = items[1][key]
    /\ ~config.create_folders =>
          ret.folders = folders /\ ret.collections = collections
    /\ \A f \in Flags : ~config[f] =>
          \A on \in {WithFlagOn(f)} : ~on.raised =>
            /\ ~ret.raised
            /\ \A key \in MutableKeys \ FlagTargets[f] :
                  ret.result[key] = on.result[key]
            /\ f # "create_folders" =>
                  /\ EntryNames(ret.folders) = EntryNames(on.folders)
                  /\ EntryNames(ret.collections) = EntryNames(on.collections)

\* with suggest_names off and the rest on, "login" at github.com kept its
\* name, got its labels field and its notes, and was filed in a new folder
C30_Witness ==
  /\ pc = "flags"
  /\ fn = "organize_item"
  /\ config = [DefaultConfig EXCEPT !.suggest_names = FALSE]
  /\ items = <<ItemTemplates[1]>>
  /\ ~is_org_vault
  /\ folders = <<>>
  /\ ~ret.raised
  /\ ret.result.name = Str("login")
  /\ ret.result.fields = List(WithLabels(<<>>, LabelsValue(items[1])))
  /\ StartsWith(ret.result.notes.v, "Domains: github.com")
  /\ Assigned(ret.result.folderId)
  /\ Len(ret.folders) = 1

====
